---- MODULE Spec2Model ----
(***************************************************************************)
(* One partition worker of the seldonite Common Crawl pipeline:            *)
(*   - whole-file mode: CCSparkJob.process_warcs + iterate_records         *)
(*   - ranged mode: CCIndexWarcSparkJob.fetch_process_warc_records         *)
(*   - the record classifier FetchNewsJob.process_record and its ranged    *)
(*     front end CCIndexFetchNewsJob.process_record                        *)
(* and the pure query builder utils.construct_query.                       *)
(*                                                                         *)
(* Specifications:                                                         *)
(*   Spec         one partition worker, whole-file or ranged               *)
(*   SpecRelease  the worker with a download that raises something other   *)
(*                than ClientError and with an abandoned generator         *)
(*   SpecJob      the driver (run, _run, run_job of sparkcc.py) around     *)
(*                the worker                                               *)
(*   SpecQuery    utils.construct_query                                    *)
(*   SpecCrawls   utils.get_cc_crawls_since                                *)
(*   SpecListing  utils.get_news_crawl_listing                             *)
(*                                                                         *)
(* How the pieces are put together.  The loops call                        *)
(* self.process_record(record) and yield what it returns when it is        *)
(* truthy.  In whole-file mode the job is FetchNewsJob, whose              *)
(* process_record(url, record) gets the record's WARC-Target-URI as url;   *)
(* in ranged mode the job is CCIndexFetchNewsJob, whose process_record     *)
(* filters the record and hands (url, record) on to the same method (it    *)
(* calls it _process_record).  The job's limit, keywords and date bounds   *)
(* are attributes set before the worker starts.                            *)
(***************************************************************************)
EXTENDS Integers, Sequences, FiniteSets, TLC

VARIABLES
    mode,                   \* "whole" (process_warcs) or "ranged" (fetch_process_warc_records)
    limit,                  \* self.limit, 0 when no article limit is configured
    num_input_partitions,   \* self.num_input_partitions
    start_date,             \* self.start_date, None when not configured
    end_date,               \* self.end_date, None when not configured
    keywords,               \* TRUE iff self.keywords is a non-empty list
    pc,                     \* position of the generator: "loop", "download", "iter", "done", "raised"
    exc,                    \* the exception that escaped the generator, "none" if none
    ev,                     \* outcome the environment gave to the last step
    record,                 \* the record handed to process_record by the last step
    taken,                  \* WorkUnits taken from the partition's iterator so far
    fetch_failed,           \* history: WorkUnits whose fetch raised ClientError
    corrupt,                \* history: WorkUnits whose stream raised ArchiveLoadFailed
    completed,              \* history: WorkUnits iterated to the end of their stream
    yielded,                \* objects yielded by the generator, in order
    warc_input_processed,
    warc_input_failed,
    records_processed,
    records_parsing_failed,
    records_non_html,
    open,                   \* temporary buffers (warctemp) currently open
    records_successfully_processed, \* local counter of iterate_records
    nrec,                   \* records delivered to the worker by its archive iterators so far
    html_to_article_calls,  \* history: calls of utils.html_to_article
    query_args,             \* arguments of utils.construct_query
    query_result,           \* what construct_query did with them, "pending" before the call
    since_args,             \* the catalog and the two dates given to utils.get_cc_crawls_since
    since_result,           \* what get_cc_crawls_since returned for each of the two dates
    listing_args,           \* start_date, end_date of utils.get_news_crawl_listing, today's date, the bucket's keys
    listing_result,         \* the prefixes get_news_crawl_listing listed and the URIs it returned
    job_pc,                 \* position of the driver in run / _run / run_job: "run", "init_accumulators", "run_job", "log_aggregators", "toDF", "returned", "raised"
    query,                  \* self.query of the index job: "None" or "set"
    url_only,               \* self.url_only
    accumulators,           \* "None" until init_accumulators creates the counters, then "initialised"
    index_loaded,           \* TRUE once load_dataframe has loaded and queried the index table
    job_exc,                \* the exception run raised to its caller, "none" if none
    logged                  \* the job summary written by log_aggregators

jobvars == <<job_pc, query, url_only, accumulators, index_loaded, job_exc, logged>>

cfgvars == <<mode, limit, num_input_partitions, start_date, end_date, keywords,
             query_args, query_result,
             since_args, since_result,
             listing_args, listing_result,
             job_pc, query, url_only, accumulators, index_loaded, job_exc, logged>>
counters == <<warc_input_processed, warc_input_failed, records_processed,
              records_parsing_failed, records_non_html>>
vars == <<mode, limit, num_input_partitions, start_date, end_date, keywords,
          pc, exc, ev, record, taken, fetch_failed, corrupt, completed, yielded,
          warc_input_processed, warc_input_failed, records_processed,
          records_parsing_failed, records_non_html, open,
          records_successfully_processed, nrec, html_to_article_calls,
          query_args, query_result,
          since_args, since_result,
          listing_args, listing_result,
          job_pc, query, url_only, accumulators, index_loaded, job_exc, logged>>

(***************************************************************************)
(* Bounds of the model                                                     *)
(***************************************************************************)
MaxUnits == 2
MaxRecs == 2
MaxLimit == 2
MaxParts == 2
MaxDay == 4

(***************************************************************************)
(* Values                                                                  *)
(***************************************************************************)
\* Python's None for an unset date bound (run(..., start_date=None, end_date=None))
None == -1

Dates == 0..MaxDay
\* the configured range used by the model: [1, MaxDay - 1], so that day 0 and
\* day MaxDay are one step outside a bound
RangeStart == 1
RangeEnd == MaxDay - 1

NoHeader == "absent"
html_types == {"text/html", "application/xhtml+xml"}

\* (WARC-Identified-Payload-Type, content-type): a content-type is the sequence
\* of the pieces of the header value, <<>> when the header is absent
HtmlHeaders ==
    { <<"text/html", <<>>>>,
      <<"application/pdf", <<"application/xhtml+xml">>>>,
      <<NoHeader, <<"text/html", "; charset=utf-8">>>> }
NonHtmlHeaders ==
    { <<NoHeader, <<>>>>,
      <<"application/pdf", <<"application/pdf">>>>,
      <<NoHeader, <<"image/png", "; q=text">>>> }

Rec(t, h, th, og, d, kw) ==
    [rec_type |-> t, payload_type |-> h[1], content_type |-> h[2],
     throws |-> th, og_type |-> og, publish_date |-> d, has_keywords |-> kw]

NoRecord == Rec("none", <<NoHeader, <<>>>>, FALSE, FALSE, 0, FALSE)

\* the records an archive stream can deliver
Records ==
    { Rec("request", <<"text/html", <<>>>>, FALSE, TRUE, RangeStart, TRUE),
      Rec("metadata", <<NoHeader, <<>>>>, FALSE, TRUE, RangeStart, TRUE) }
    \cup { Rec("response", h, FALSE, TRUE, RangeStart, TRUE) : h \in NonHtmlHeaders }
    \cup { Rec("response", h, FALSE, TRUE, RangeStart, TRUE) : h \in HtmlHeaders }
    \cup { Rec("response", <<"text/html", <<>>>>, TRUE, TRUE, RangeStart, TRUE),
           Rec("response", <<"text/html", <<>>>>, FALSE, FALSE, RangeStart, TRUE),
           Rec("response", <<"text/html", <<>>>>, FALSE, TRUE, RangeStart, FALSE) }
    \cup { Rec("response", <<"text/html", <<>>>>, FALSE, TRUE, d, TRUE) : d \in Dates }

\* a WorkUnit URI of whole-file mode
Uris ==
    { [scheme |-> "s3", bucket |-> "commoncrawl", path |-> "crawl-data/a.warc.gz"],
      [scheme |-> "s3", bucket |-> "commoncrawl", path |-> ""],
      [scheme |-> "file", bucket |-> "", path |-> "tmp/a.warc.gz"] }

\* uri.startswith('s3://')
startswith_s3(uri) == uri.scheme = "s3"
\* re.compile('^s3://([^/]+)/(.+)').match(uri) is not None
s3pattern_match(uri) == uri.scheme = "s3" /\ uri.bucket # "" /\ uri.path # ""

\* math.ceil(a / b) for a >= 0, b >= 1
ceil_div(a, b) == (a + b - 1) \div b

(***************************************************************************)
(* Record classification and extraction                                    *)
(***************************************************************************)
\* html_type in content_type
contains(content_type, html_type) ==
    \E i \in 1..Len(content_type) : content_type[i] = html_type

is_html(r) ==
    IF r.payload_type # NoHeader /\ r.payload_type \in html_types
    THEN TRUE
    ELSE /\ r.content_type # <<>>
         /\ \E t \in html_types : contains(r.content_type, t)

\* what process_record did: its return value ("None", "FalseNone" for
\* (False, None), "TrueArticle" for (True, {...}), "TypeError" when the call
\* raised), the counters it added to, and whether html_to_article was called
Result(ret, nonhtml, parsefail, called) ==
    [ret |-> ret, non_html |-> nonhtml, parsing_failed |-> parsefail, extracted |-> called]

\* article.publish_date < self.start_date or article.publish_date > self.end_date
\* an order comparison with None raises TypeError
date_test(d, s, e) ==
    IF s = None THEN "TypeError"
    ELSE IF d < s THEN "reject"
    ELSE IF e = None THEN "TypeError"
    ELSE IF d > e THEN "reject"
    ELSE "pass"

\* process_record without the `record.rec_type != 'response'` test
FetchNewsJob_process_record_no_type_check(r, s, e, kws) ==
    IF ~is_html(r) THEN Result("None", 1, 0, FALSE)
    ELSE IF r.throws THEN Result("FalseNone", 0, 1, TRUE)
    ELSE IF ~r.og_type THEN Result("FalseNone", 0, 0, TRUE)
    ELSE IF date_test(r.publish_date, s, e) = "TypeError" THEN Result("TypeError", 0, 0, TRUE)
    ELSE IF date_test(r.publish_date, s, e) = "reject" THEN Result("FalseNone", 0, 0, TRUE)
    ELSE IF kws /\ ~r.has_keywords THEN Result("FalseNone", 0, 0, TRUE)
    ELSE Result("TrueArticle", 0, 0, TRUE)

\* FetchNewsJob.process_record(url, record); the url is the record's
\* WARC-Target-URI and plays no part in the outcome
FetchNewsJob_process_record(r, s, e, kws) ==
    IF r.rec_type # "response" THEN Result("None", 0, 0, FALSE)
    ELSE IF ~is_html(r) THEN Result("None", 1, 0, FALSE)
    ELSE IF r.throws THEN Result("FalseNone", 0, 1, TRUE)
    ELSE IF ~r.og_type THEN Result("FalseNone", 0, 0, TRUE)
    ELSE IF date_test(r.publish_date, s, e) = "TypeError" THEN Result("TypeError", 0, 0, TRUE)
    ELSE IF date_test(r.publish_date, s, e) = "reject" THEN Result("FalseNone", 0, 0, TRUE)
    ELSE IF kws /\ ~r.has_keywords THEN Result("FalseNone", 0, 0, TRUE)
    ELSE Result("TrueArticle", 0, 0, TRUE)

CCIndexFetchNewsJob_process_record(r, s, e, kws) ==
    IF r.rec_type # "response" THEN Result("None", 0, 0, FALSE)
    ELSE IF ~is_html(r) THEN Result("None", 0, 0, FALSE)
    ELSE FetchNewsJob_process_record(r, s, e, kws)

\* self.process_record(record) of the job running in this mode
process_record(r) ==
    IF mode = "whole"
    THEN FetchNewsJob_process_record(r, start_date, end_date, keywords)
    ELSE CCIndexFetchNewsJob_process_record(r, start_date, end_date, keywords)

\* `if obj:` - None is falsy, a tuple of two elements is truthy
truthy(ret) == ret # "None"

(***************************************************************************)
(* utils.construct_query.  Argument strings that the code looks into       *)
(* (sites, block-list patterns) are sequences of characters; Str gives     *)
(* the text they are formatted to.                                         *)
(***************************************************************************)
MaxSites == 2
MaxCrawls == 2
MaxBlock == 1

RECURSIVE Str(_)
Str(cs) == IF cs = <<>> THEN "" ELSE cs[1] \o Str(Tail(cs))

\* sep.join(items)
RECURSIVE join(_, _)
join(sep, items) ==
    IF items = <<>> THEN ""
    ELSE IF Len(items) = 1 THEN items[1]
    ELSE items[1] \o sep \o join(sep, Tail(items))

\* f"'{x}'"
quoted(x) == "'" \o x \o "'"

\* "." in domain
has_dot(domain) == \E i \in 1..Len(domain) : domain[i] = "."

\* any(...) in place of all(...)
any_site_has_dot(sites) == \E i \in 1..Len(sites) : has_dot(sites[i])

\* all("." in domain for domain in sites)
all_sites_have_dot(sites) == \A i \in 1..Len(sites) : has_dot(sites[i])

\* the wildcard left as written
keep_wildcard(url_wildcard) == url_wildcard

\* url_wildcard.replace('*', '%')
replace_wildcard(url_wildcard) ==
    [i \in 1..Len(url_wildcard) |-> IF url_wildcard[i] = "*" THEN "%" ELSE url_wildcard[i]]

query_prefix ==
    "SELECT url, warc_filename, warc_record_offset, warc_record_length, content_charset FROM ccindex WHERE subset = 'warc'"

crawl_clause(crawls) ==
    IF crawls = <<>> THEN ""
    ELSE IF Len(crawls) = 1 THEN " AND crawl = " \o quoted(crawls[1])
    ELSE " AND crawl IN ("
         \o join(", ", [i \in 1..Len(crawls) |-> quoted(crawls[i])]) \o ")"

site_clause(sites) ==
    IF sites = <<>> THEN ""
    ELSE " AND url_host_registered_domain IN ("
         \o join(", ", [i \in 1..Len(sites) |-> quoted(Str(sites[i]))]) \o ")"

lang_clause(lang) ==
    IF lang = "" THEN ""
    ELSE " AND (content_languages IS NULL OR (content_languages IS NOT NULL AND content_languages = "
         \o quoted(lang) \o "))"

black_list_clause(url_black_list) ==
    IF url_black_list = <<>> THEN ""
    ELSE " AND NOT ("
         \o join(" OR ", [i \in 1..Len(url_black_list) |->
                            "url_path LIKE " \o quoted(Str(replace_wildcard(url_black_list[i])))])
         \o ")"

limit_clause(n) == IF n = 0 THEN "" ELSE " LIMIT " \o ToString(n)

\* the call's outcome: the exception raised ("none" if it returned) and the
\* string returned ("" if it raised)
construct_query(sites, n, crawls, lang, url_black_list) ==
    IF ~all_sites_have_dot(sites)
    THEN [raised |-> "ValueError", query |-> ""]
    ELSE [raised |-> "none",
          query |-> query_prefix \o crawl_clause(crawls) \o site_clause(sites)
                    \o lang_clause(lang) \o black_list_clause(url_black_list)
                    \o limit_clause(n)]

NoArgs == [sites |-> <<>>, limit |-> 0, crawls |-> <<>>, lang |-> "", url_black_list |-> <<>>]
Pending == [raised |-> "pending", query |-> ""]

Domains ==
    { <<"c", "b", "c">>,
      <<"c", "b", "c", ".", "c", "a">>,
      <<"a", "p", "n", "e", "w", "s", ".", "c", "o", "m">>,
      <<>> }
CrawlIds == {"CC-MAIN-2021-39", "CC-MAIN-2021-43"}
Patterns == { <<"*", "/", "s", "*">>, <<"/", "v", "/">> }

SeqsUpTo(S, n) == UNION { [1..k -> S] : k \in 0..n }

QueryInputs ==
    [sites : SeqsUpTo(Domains, MaxSites),
     limit : 0..MaxLimit \cup {10},
     crawls : SeqsUpTo(CrawlIds, MaxCrawls),
     lang : {"", "eng"},
     url_black_list : SeqsUpTo(Patterns, MaxBlock)]

(***************************************************************************)
(* utils.get_cc_crawls_since: the crawls of the catalog (collinfo.json)    *)
(* that started after a date.  A crawl is [id, name]; of the name the      *)
(* function reads what its two regular expressions find: the four-digit    *)
(* numbers (re.findall, left to right) and the month names (re.search      *)
(* takes the first).  Of the date it reads year and month.                 *)
(***************************************************************************)
MaxCatalog == 2

\* '%B' of datetime.strptime: the month's full name, numbered from 1
month_names ==
    <<"January", "February", "March", "April", "May", "June", "July",
      "August", "September", "October", "November", "December">>

\* datetime.datetime.strptime(crawl_month, '%B').month
strptime_B_month(crawl_month) ==
    CHOOSE k \in 1..Len(month_names) : month_names[k] = crawl_month

\* the latest year of the name in place of the earliest
RECURSIVE crawl_year_max(_)
crawl_year_max(crawl_years) ==
    IF Len(crawl_years) = 1 THEN crawl_years[1]
    ELSE LET m == crawl_year_max(Tail(crawl_years))
         IN IF crawl_years[1] > m THEN crawl_years[1] ELSE m

\* crawl_year = min(crawl_years)
RECURSIVE crawl_year(_)
crawl_year(crawl_years) ==
    IF Len(crawl_years) = 1 THEN crawl_years[1]
    ELSE LET m == crawl_year(Tail(crawl_years))
         IN IF crawl_years[1] < m THEN crawl_years[1] ELSE m

\* the month compared whatever the year
appends_on_month(crawl, date) ==
    \/ crawl_year(crawl.name.years) > date.year
    \/ /\ crawl.name.months # <<>>
       /\ strptime_B_month(crawl.name.months[1]) > date.month

\* the body of the loop: TRUE iff crawl['id'] is appended to crawl_ids
appends(crawl, date) ==
    IF crawl_year(crawl.name.years) > date.year THEN TRUE
    ELSE IF crawl_year(crawl.name.years) = date.year
         THEN IF crawl.name.months = <<>> THEN FALSE
              ELSE strptime_B_month(crawl.name.months[1]) > date.month
         ELSE FALSE

get_cc_crawls_since(crawls, date) ==
    LET kept == SelectSeq(crawls, LAMBDA crawl : appends(crawl, date))
    IN [i \in 1..Len(kept) |-> kept[i].id]

\* names of the catalog: "2019", "Summer 2020", "March 2020 Index",
\* "June 2020 Index", "November/December 2020 Index", "January 2021 Index",
\* "February 2021 (2020 data)", "2019-2020"
CrawlNames ==
    { [years |-> <<2019>>, months |-> <<>>],
      [years |-> <<2020>>, months |-> <<>>],
      [years |-> <<2020>>, months |-> <<"March">>],
      [years |-> <<2020>>, months |-> <<"June">>],
      [years |-> <<2020>>, months |-> <<"November", "December">>],
      [years |-> <<2021>>, months |-> <<"January">>],
      [years |-> <<2021, 2020>>, months |-> <<"February">>],
      [years |-> <<2019, 2020>>, months |-> <<>>] }

\* a catalog: the i-th crawl has id i
Catalogs ==
    { [i \in 1..Len(ns) |-> [id |-> i, name |-> ns[i]]] : ns \in SeqsUpTo(CrawlNames, MaxCatalog) }

SinceDates == [year : 2019..2021, month : {1, 3, 6, 11}]

SinceInputs == [crawls : Catalogs, dates : SinceDates \X SinceDates]

NotCalled == [called |-> FALSE, crawl_ids |-> <<>>]

NoSince == [crawls |-> <<>>, dates |-> <<[year |-> 2019, month |-> 1], [year |-> 2019, month |-> 1]>>]

(***************************************************************************)
(* utils.get_news_crawl_listing: the CC-NEWS files of a range of days.     *)
(* A date is [year, month, day] with the arithmetic of datetime.date; an   *)
(* absent date (None) is NoDate.  A string is the sequence of its pieces   *)
(* (path segments, separators, the fields of strftime), so that            *)
(* concatenation is \o and startswith is "is a prefix of".                 *)
(***************************************************************************)
MaxSpan == 2

sitemap_pad == 30

NoDate == [year |-> 0, month |-> 0, day |-> 0]

\* datetime.date.min
date_min == [year |-> 1, month |-> 1, day |-> 1]

is_leap(y) == y % 4 = 0 /\ (y % 100 # 0 \/ y % 400 = 0)

days_in_month(y, m) ==
    IF m = 2 THEN (IF is_leap(y) THEN 29 ELSE 28)
    ELSE IF m \in {4, 6, 9, 11} THEN 30 ELSE 31

days_before_year(y) ==
    (y - 1) * 365 + (y - 1) \div 4 - (y - 1) \div 100 + (y - 1) \div 400

RECURSIVE days_before_month(_, _)
days_before_month(y, m) ==
    IF m = 1 THEN 0 ELSE days_before_month(y, m - 1) + days_in_month(y, m - 1)

toordinal(d) == days_before_year(d.year) + days_before_month(d.year, d.month) + d.day

\* d + datetime.timedelta(days=1)
next_day(d) ==
    IF d.day < days_in_month(d.year, d.month) THEN [d EXCEPT !.day = d.day + 1]
    ELSE IF d.month < 12 THEN [year |-> d.year, month |-> d.month + 1, day |-> 1]
    ELSE [year |-> d.year + 1, month |-> 1, day |-> 1]

\* d + datetime.timedelta(days=i), i >= 0
RECURSIVE plus_days(_, _)
plus_days(d, i) == IF i = 0 THEN d ELSE plus_days(next_day(d), i - 1)

\* zero-padded decimal fields of strftime: %m and %d, %Y
two_digits(n) == IF n < 10 THEN "0" \o ToString(n) ELSE ToString(n)
four_digits(n) ==
    IF n < 10 THEN "000" \o ToString(n)
    ELSE IF n < 100 THEN "00" \o ToString(n)
    ELSE IF n < 1000 THEN "0" \o ToString(n)
    ELSE ToString(n)

\* day.strftime('%Y/%m/CC-NEWS-%Y%m%d')
date_path(day) ==
    <<four_digits(day.year), "/", two_digits(day.month), "/", "CC-NEWS-",
      four_digits(day.year), two_digits(day.month), two_digits(day.day)>>

\* s.startswith(prefix)
startswith(s, prefix) ==
    Len(prefix) <= Len(s) /\ SubSeq(s, 1, Len(prefix)) = prefix

\* keys('commoncrawl', prefix=...): [Prefix, keys], the Prefix given to the
\* paginator and the keys it lists: the keys of the bucket that start with
\* Prefix and come after StartAfter, in the bucket's (lexicographic) order
keys(bucket, prefix) ==
    LET p == IF startswith(prefix, <<"/">>) THEN Tail(prefix) ELSE prefix
        start_after == IF p # <<>> /\ p[Len(p)] = "/" THEN p ELSE <<>>
    IN [Prefix |-> p,
        keys |-> SelectSeq(bucket, LAMBDA key : startswith(key, p) /\ key # start_after)]

\* one day less: range(delta.days + sitemap_pad)
range_len_exclusive(delta_days) ==
    IF delta_days + sitemap_pad < 0 THEN 0 ELSE delta_days + sitemap_pad

\* len(range(delta.days + 1 + sitemap_pad))
range_len(delta_days) ==
    IF delta_days + 1 + sitemap_pad < 0 THEN 0 ELSE delta_days + 1 + sitemap_pad

RECURSIVE flatten(_)
flatten(lists) == IF lists = <<>> THEN <<>> ELSE lists[1] \o flatten(Tail(lists))

get_news_crawl_listing(start_date_arg, end_date_arg, today, bucket) ==
    IF start_date_arg = NoDate /\ end_date_arg = NoDate
    THEN LET l == keys(bucket, <<"/", "crawl-data", "/", "CC-NEWS", "/">>)
         IN [prefixes |-> <<l.Prefix>>,
             uris |-> [i \in 1..Len(l.keys) |-> <<"s3://commoncrawl/">> \o l.keys[i]]]
    ELSE LET e == IF end_date_arg = NoDate THEN today ELSE end_date_arg
             s == IF end_date_arg # NoDate /\ start_date_arg = NoDate
                  THEN date_min ELSE start_date_arg
             delta_days == toordinal(e) - toordinal(s)
             days == [i \in 1..range_len(delta_days) |-> plus_days(s, i - 1)]
             pages == [i \in 1..Len(days) |->
                          keys(bucket, <<"/", "crawl-data", "/", "CC-NEWS", "/">>
                                       \o date_path(days[i]))]
             warc_paths == flatten([i \in 1..Len(days) |-> pages[i].keys])
         IN [prefixes |-> [i \in 1..Len(days) |-> pages[i].Prefix],
             uris |-> [i \in 1..Len(warc_paths) |-> <<"s3://commoncrawl/">> \o warc_paths[i]]]

\* keys of the bucket, in its listing order
StoreKeys ==
    << <<"crawl-data", "/", "CC-MAIN-2021-39", "/", "warc.paths.gz">>,
       <<"crawl-data", "/", "CC-NEWS", "/">>,
       <<"crawl-data", "/", "CC-NEWS", "/", "2021", "/", "08", "/", "CC-NEWS-", "2021", "08", "25", "012345-00001.warc.gz">>,
       <<"crawl-data", "/", "CC-NEWS", "/", "2021", "/", "09", "/", "CC-NEWS-", "2021", "09", "24", "012345-00002.warc.gz">>,
       <<"crawl-data", "/", "CC-NEWS", "/", "2021", "/", "09", "/", "CC-NEWS-", "2021", "09", "26", "012345-00003.warc.gz">>,
       <<"crawl-data", "/", "CC-NEWS", "/", "2021", "/", "10", "/", "CC-NEWS-", "2021", "10", "01", "012345-00004.warc.gz">>,
       <<"crawl-data", "/", "CC-NEWS", "/", "index.html">> >>

Buckets ==
    { LET kept == SelectSeq([i \in 1..Len(StoreKeys) |-> i], LAMBDA i : i \in I)
      IN [j \in 1..Len(kept) |-> StoreKeys[kept[j]]] : I \in SUBSET (1..Len(StoreKeys)) }

Anchors ==
    { date_min,
      [year |-> 2021, month |-> 8, day |-> 25],
      [year |-> 2024, month |-> 1, day |-> 30] }

ListingDates == { plus_days(a, i) : a \in Anchors, i \in 0..MaxSpan }

Todays == { plus_days([year |-> 2021, month |-> 8, day |-> 25], i) : i \in 0..MaxSpan }

\* the days of a call are enumerated one by one: the calls kept are those
\* whose end is at most MaxSpan days after their start
ListingInputs ==
    { a \in [start_date : ListingDates \cup {NoDate}, end_date : ListingDates \cup {NoDate},
             today : Todays, bucket : Buckets] :
        \/ a.start_date = NoDate /\ a.end_date = NoDate
        \/ LET e == IF a.end_date = NoDate THEN a.today ELSE a.end_date
               s == IF a.start_date = NoDate THEN date_min ELSE a.start_date
           IN toordinal(e) - toordinal(s) <= MaxSpan }

NoListing == [start_date |-> NoDate, end_date |-> NoDate, today |-> date_min, bucket |-> <<>>]

NotListed == [called |-> FALSE, prefixes |-> <<>>, uris |-> <<>>]

(***************************************************************************)
(* The driver: CCSparkJob.run / _run / run_job and their overrides in      *)
(* CCIndexSparkJob and CCIndexWarcSparkJob                                 *)
(***************************************************************************)
NotLogged ==
    [called |-> FALSE, warc_input_processed |-> 0, warc_input_failed |-> 0,
     records_processed |-> 0, records_parsing_failed |-> 0]

\* no job constructed
job_not_run ==
    /\ job_pc = "run"
    /\ query = "None"
    /\ url_only = FALSE
    /\ accumulators = "None"
    /\ index_loaded = FALSE
    /\ job_exc = "none"
    /\ logged = NotLogged

\* the driver as it stands while a partition is evaluated: run_job has
\* initialised the accumulators, loaded the index (ranged job), written the
\* summary and is in toDF
job_evaluating ==
    /\ job_pc = "toDF"
    /\ query = IF mode = "ranged" THEN "set" ELSE "None"
    /\ url_only = FALSE
    /\ accumulators = "initialised"
    /\ index_loaded = (mode = "ranged")
    /\ job_exc = "none"
    /\ logged = [NotLogged EXCEPT !.called = TRUE]

(***************************************************************************)
(* Initial state: a configured job, accumulators at 0 (init_accumulators)  *)
(***************************************************************************)
\* self.set_constraints(keywords, start_date, end_date), called by
\* CCIndexFetchNewsJob.run with the caller's values (None when no bound is
\* given): the filter criteria are kept as given, an absent bound stays None
set_constraints(kws, s, e) == [keywords |-> kws, start_date |-> s, end_date |-> e]

Init ==
    /\ mode \in {"whole", "ranged"}
    /\ limit \in 0..MaxLimit
    /\ num_input_partitions \in 1..MaxParts
    /\ \E kws \in BOOLEAN, s \in {None, RangeStart}, e \in {None, RangeEnd} :
          LET c == set_constraints(kws, s, e)
          IN /\ keywords = c.keywords
             /\ start_date = c.start_date
             /\ end_date = c.end_date
    /\ pc = "loop"
    /\ exc = "none"
    /\ ev = "init"
    /\ record = NoRecord
    /\ taken = 0
    /\ fetch_failed = 0
    /\ corrupt = 0
    /\ completed = 0
    /\ yielded = <<>>
    /\ warc_input_processed = 0
    /\ warc_input_failed = 0
    /\ records_processed = 0
    /\ records_parsing_failed = 0
    /\ records_non_html = 0
    /\ open = 0
    /\ records_successfully_processed = 0
    /\ nrec = 0
    /\ html_to_article_calls = 0
    /\ query_args = NoArgs
    /\ query_result = Pending
    /\ since_args = NoSince
    /\ since_result = <<NotCalled, NotCalled>>
    /\ listing_args = NoListing
    /\ listing_result = NotListed
    /\ job_evaluating

(***************************************************************************)
(* Whole-file mode: CCSparkJob.process_warcs and iterate_records           *)
(***************************************************************************)
\* the `for uri in iterator` loop ends: the generator returns
process_warcs_return ==
    /\ mode = "whole" /\ pc = "loop"
    /\ pc' = "done"
    /\ record' = NoRecord
    /\ ev' = "exhausted"
    /\ UNCHANGED <<cfgvars, counters, exc, taken, fetch_failed, corrupt,
                   completed, yielded, open, records_successfully_processed, nrec,
                   html_to_article_calls>>

\* lines 124-137: count the unit, check the URI, open the temporary file
process_warcs_next_uri(uri) ==
    /\ mode = "whole" /\ pc = "loop" /\ taken < MaxUnits
    /\ record' = NoRecord
    /\ taken' = taken + 1
    /\ warc_input_processed' = warc_input_processed + 1
    /\ IF ~startswith_s3(uri)
       THEN /\ ev' = "uri_not_s3"
            /\ pc' = "raised" /\ exc' = "ValueError"
            /\ open' = open
       ELSE IF ~s3pattern_match(uri)
       THEN /\ ev' = "uri_invalid"
            /\ pc' = "loop" /\ exc' = exc
            /\ open' = open
       ELSE /\ ev' = "uri_ok"
            /\ pc' = "download" /\ exc' = exc
            /\ open' = open + 1
    /\ UNCHANGED <<cfgvars, fetch_failed, corrupt, completed, yielded,
                   warc_input_failed, records_processed, records_parsing_failed,
                   records_non_html, records_successfully_processed, nrec,
                   html_to_article_calls>>

\* download_ok that starts the count of processed records afresh for the file
download_ok_reset ==
    /\ mode = "whole" /\ pc = "download"
    /\ record' = NoRecord
    /\ ev' = "download_ok"
    /\ pc' = "iter"
    /\ records_successfully_processed' = 0
    /\ records_processed' = 0
    /\ UNCHANGED <<cfgvars, warc_input_processed, warc_input_failed,
                   records_parsing_failed, records_non_html, exc, taken, fetch_failed,
                   corrupt, completed, yielded, open, nrec, html_to_article_calls>>

\* lines 139, 146-153: the download succeeded; iterate_records starts
download_ok ==
    /\ mode = "whole" /\ pc = "download"
    /\ record' = NoRecord
    /\ ev' = "download_ok"
    /\ pc' = "iter"
    /\ records_successfully_processed' = 0
    /\ UNCHANGED <<cfgvars, counters, exc, taken, fetch_failed, corrupt,
                   completed, yielded, open, nrec, html_to_article_calls>>

\* download_failed without `warctemp.close()`
download_failed_no_close ==
    /\ mode = "whole" /\ pc = "download"
    /\ record' = NoRecord
    /\ ev' = "download_ClientError"
    /\ warc_input_failed' = warc_input_failed + 1
    /\ open' = open
    /\ pc' = "loop"
    /\ fetch_failed' = fetch_failed + 1
    /\ UNCHANGED <<cfgvars, exc, taken, corrupt, completed, yielded,
                   warc_input_processed, records_processed, records_parsing_failed,
                   records_non_html, records_successfully_processed, nrec,
                   html_to_article_calls>>

\* lines 140-145: except ClientError
download_failed ==
    /\ mode = "whole" /\ pc = "download"
    /\ record' = NoRecord
    /\ ev' = "download_ClientError"
    /\ warc_input_failed' = warc_input_failed + 1
    /\ open' = open - 1
    /\ pc' = "loop"
    /\ fetch_failed' = fetch_failed + 1
    /\ UNCHANGED <<cfgvars, exc, taken, corrupt, completed, yielded,
                   warc_input_processed, records_processed, records_parsing_failed,
                   records_non_html, records_successfully_processed, nrec,
                   html_to_article_calls>>

\* line 170
num_to_successfully_process == ceil_div(limit, num_input_partitions)

\* line 180: `if self.limit and records_successfully_processed >= num_to_successfully_process`
limit_reached(n) == limit # 0 /\ n >= num_to_successfully_process

\* lines 171-181 with 153-154 and 159-160: one record of the stream
iterate_records(r) ==
    /\ mode = "whole" /\ pc = "iter" /\ nrec < MaxRecs
    /\ ev' = "record"
    /\ record' = r
    /\ nrec' = nrec + 1
    /\ LET res == process_record(r)
           n == IF truthy(res.ret) THEN records_successfully_processed + 1
                ELSE records_successfully_processed
       IN /\ records_non_html' = records_non_html + res.non_html
          /\ html_to_article_calls' = html_to_article_calls + (IF res.extracted THEN 1 ELSE 0)
          /\ records_parsing_failed' = records_parsing_failed + res.parsing_failed
          /\ IF res.ret = "TypeError"
             THEN \* the exception leaves iterate_records and process_warcs;
                  \* `finally: stream.close()` runs on the way out
                  /\ pc' = "raised" /\ exc' = "TypeError"
                  /\ open' = open - 1
                  /\ UNCHANGED <<yielded, records_processed,
                                 records_successfully_processed>>
             ELSE /\ yielded' = IF truthy(res.ret)
                                THEN Append(yielded, res.ret)
                                ELSE yielded
                  /\ records_successfully_processed' = n
                  /\ records_processed' = records_processed + 1
                  /\ exc' = exc
                  /\ IF limit_reached(n)
                     THEN /\ pc' = "loop" /\ open' = open - 1
                     ELSE /\ pc' = "iter" /\ open' = open
    /\ UNCHANGED <<cfgvars, taken, fetch_failed, corrupt, completed,
                   warc_input_processed, warc_input_failed>>

\* the archive iterator is exhausted; `finally: stream.close()`
iterate_records_end ==
    /\ mode = "whole" /\ pc = "iter"
    /\ record' = NoRecord
    /\ ev' = "eof"
    /\ completed' = completed + 1
    /\ open' = open - 1
    /\ pc' = "loop"
    /\ UNCHANGED <<cfgvars, counters, exc, taken, fetch_failed, corrupt,
                   yielded, records_successfully_processed, nrec,
                   html_to_article_calls>>

\* archive_load_failed without `self.warc_input_failed.add(1)`
archive_load_failed_uncounted ==
    /\ mode = "whole" /\ pc = "iter"
    /\ record' = NoRecord
    /\ ev' = "ArchiveLoadFailed"
    /\ corrupt' = corrupt + 1
    /\ open' = open - 1
    /\ pc' = "loop"
    /\ UNCHANGED <<cfgvars, counters, exc, taken, fetch_failed, completed, yielded,
                   records_successfully_processed, nrec, html_to_article_calls>>

\* lines 155-160: except ArchiveLoadFailed, then finally
archive_load_failed ==
    /\ mode = "whole" /\ pc = "iter"
    /\ record' = NoRecord
    /\ ev' = "ArchiveLoadFailed"
    /\ warc_input_failed' = warc_input_failed + 1
    /\ corrupt' = corrupt + 1
    /\ open' = open - 1
    /\ pc' = "loop"
    /\ UNCHANGED <<cfgvars, exc, taken, fetch_failed, completed, yielded,
                   warc_input_processed, records_processed, records_parsing_failed,
                   records_non_html, records_successfully_processed, nrec,
                   html_to_article_calls>>

(***************************************************************************)
(* Ranged mode: CCIndexWarcSparkJob.fetch_process_warc_records             *)
(***************************************************************************)
\* the `for row in rows` loop ends
fetch_process_return ==
    /\ mode = "ranged" /\ pc = "loop"
    /\ pc' = "done"
    /\ record' = NoRecord
    /\ ev' = "exhausted"
    /\ UNCHANGED <<cfgvars, counters, exc, taken, fetch_failed, corrupt,
                   completed, yielded, open, records_successfully_processed, nrec,
                   html_to_article_calls>>

\* lines 320-334, 341: the range request succeeded
get_object_ok ==
    /\ mode = "ranged" /\ pc = "loop" /\ taken < MaxUnits
    /\ taken' = taken + 1
    /\ record' = NoRecord
    /\ ev' = "fetch_ok"
    /\ pc' = "iter"
    /\ UNCHANGED <<cfgvars, counters, exc, fetch_failed, corrupt, completed,
                   yielded, open, records_successfully_processed, nrec,
                   html_to_article_calls>>

\* lines 335-340: except ClientError
get_object_failed ==
    /\ mode = "ranged" /\ pc = "loop" /\ taken < MaxUnits
    /\ taken' = taken + 1
    /\ record' = NoRecord
    /\ ev' = "fetch_ClientError"
    /\ warc_input_failed' = warc_input_failed + 1
    /\ fetch_failed' = fetch_failed + 1
    /\ pc' = "loop"
    /\ UNCHANGED <<cfgvars, exc, corrupt, completed, yielded,
                   warc_input_processed, records_processed, records_parsing_failed,
                   records_non_html, open, records_successfully_processed, nrec,
                   html_to_article_calls>>

\* lines 343-351: one record of the ranged stream
fetch_process_record(r) ==
    /\ mode = "ranged" /\ pc = "iter" /\ nrec < MaxRecs
    /\ ev' = "record"
    /\ record' = r
    /\ nrec' = nrec + 1
    /\ LET res == process_record(r)
       IN /\ records_non_html' = records_non_html + res.non_html
          /\ html_to_article_calls' = html_to_article_calls + (IF res.extracted THEN 1 ELSE 0)
          /\ records_parsing_failed' = records_parsing_failed + res.parsing_failed
          /\ IF res.ret = "TypeError"
             THEN /\ pc' = "raised" /\ exc' = "TypeError"
                  /\ UNCHANGED <<yielded, records_processed>>
             ELSE /\ yielded' = IF truthy(res.ret)
                                THEN Append(yielded, res.ret)
                                ELSE yielded
                  /\ records_processed' = records_processed + 1
                  /\ pc' = "iter" /\ exc' = exc
    /\ UNCHANGED <<cfgvars, taken, fetch_failed, corrupt, completed,
                   warc_input_processed, warc_input_failed, open,
                   records_successfully_processed>>

\* the ranged stream is exhausted
fetch_process_end ==
    /\ mode = "ranged" /\ pc = "iter"
    /\ record' = NoRecord
    /\ ev' = "eof"
    /\ completed' = completed + 1
    /\ pc' = "loop"
    /\ UNCHANGED <<cfgvars, counters, exc, taken, fetch_failed, corrupt,
                   yielded, open, records_successfully_processed, nrec,
                   html_to_article_calls>>

\* lines 353-357: except ArchiveLoadFailed
fetch_archive_load_failed ==
    /\ mode = "ranged" /\ pc = "iter"
    /\ record' = NoRecord
    /\ ev' = "ArchiveLoadFailed"
    /\ warc_input_failed' = warc_input_failed + 1
    /\ corrupt' = corrupt + 1
    /\ pc' = "loop"
    /\ UNCHANGED <<cfgvars, exc, taken, fetch_failed, completed, yielded,
                   warc_input_processed, records_processed, records_parsing_failed,
                   records_non_html, open, records_successfully_processed, nrec,
                   html_to_article_calls>>

Next ==
    \/ process_warcs_return
    \/ \E uri \in Uris : process_warcs_next_uri(uri)
    \/ download_ok
    \/ download_failed
    \/ \E r \in Records : iterate_records(r)
    \/ iterate_records_end
    \/ archive_load_failed
    \/ fetch_process_return
    \/ get_object_ok
    \/ get_object_failed
    \/ \E r \in Records : fetch_process_record(r)
    \/ fetch_process_end
    \/ fetch_archive_load_failed

Spec == Init /\ [][Next]_vars

(***************************************************************************)
(* The query builder on its own: a caller configuring an index job calls   *)
(* utils.construct_query before the job runs                               *)
(***************************************************************************)
InitQuery ==
    /\ query_args \in QueryInputs
    /\ query_result = Pending
    /\ mode = "ranged"
    /\ limit = query_args.limit
    /\ num_input_partitions = 1
    /\ start_date = None
    /\ end_date = None
    /\ keywords = FALSE
    /\ pc = "config"
    /\ exc = "none"
    /\ ev = "init"
    /\ record = NoRecord
    /\ taken = 0
    /\ fetch_failed = 0
    /\ corrupt = 0
    /\ completed = 0
    /\ yielded = <<>>
    /\ warc_input_processed = 0
    /\ warc_input_failed = 0
    /\ records_processed = 0
    /\ records_parsing_failed = 0
    /\ records_non_html = 0
    /\ open = 0
    /\ records_successfully_processed = 0
    /\ nrec = 0
    /\ html_to_article_calls = 0
    /\ since_args = NoSince
    /\ since_result = <<NotCalled, NotCalled>>
    /\ listing_args = NoListing
    /\ listing_result = NotListed
    /\ job_not_run

call_construct_query ==
    /\ pc = "config"
    /\ query_result = Pending
    /\ query_result' = construct_query(query_args.sites, query_args.limit, query_args.crawls,
                                       query_args.lang, query_args.url_black_list)
    /\ UNCHANGED <<mode, limit, num_input_partitions, start_date, end_date, keywords,
                   query_args, pc, exc, ev, record, taken, fetch_failed, corrupt,
                   completed, yielded, counters, open, records_successfully_processed,
                   nrec, html_to_article_calls, since_args, since_result,
                   listing_args, listing_result, jobvars>>

NextQuery == call_construct_query

SpecQuery == InitQuery /\ [][NextQuery]_vars

(***************************************************************************)
(* utils.get_cc_crawls_since as a function of the catalog and the date,    *)
(* called once for each of two dates over the same catalog                 *)
(***************************************************************************)
\* the worker of the other specifications, not started
worker_idle ==
    /\ mode = "ranged"
    /\ limit = 0
    /\ num_input_partitions = 1
    /\ start_date = None
    /\ end_date = None
    /\ keywords = FALSE
    /\ pc = "config"
    /\ exc = "none"
    /\ ev = "init"
    /\ record = NoRecord
    /\ taken = 0
    /\ fetch_failed = 0
    /\ corrupt = 0
    /\ completed = 0
    /\ yielded = <<>>
    /\ warc_input_processed = 0
    /\ warc_input_failed = 0
    /\ records_processed = 0
    /\ records_parsing_failed = 0
    /\ records_non_html = 0
    /\ open = 0
    /\ records_successfully_processed = 0
    /\ nrec = 0
    /\ html_to_article_calls = 0

workervars == <<mode, limit, num_input_partitions, start_date, end_date, keywords,
                pc, exc, ev, record, taken, fetch_failed, corrupt, completed, yielded,
                counters, open, records_successfully_processed, nrec,
                html_to_article_calls>>

InitCrawls ==
    /\ worker_idle
    /\ query_args = NoArgs
    /\ query_result = Pending
    /\ since_args \in SinceInputs
    /\ since_result = <<NotCalled, NotCalled>>
    /\ listing_args = NoListing
    /\ listing_result = NotListed
    /\ job_not_run

call_get_cc_crawls_since(k) ==
    /\ pc = "config"
    /\ ~since_result[k].called
    /\ since_result' =
          [since_result EXCEPT ![k] =
              [called |-> TRUE,
               crawl_ids |-> get_cc_crawls_since(since_args.crawls, since_args.dates[k])]]
    /\ UNCHANGED <<workervars, query_args, query_result, since_args,
                   listing_args, listing_result, jobvars>>

NextCrawls == \E k \in 1..2 : call_get_cc_crawls_since(k)

SpecCrawls == InitCrawls /\ [][NextCrawls]_vars

(***************************************************************************)
(* utils.get_news_crawl_listing as a function of its two dates, the day    *)
(* of the call and the keys of the bucket                                  *)
(***************************************************************************)
InitListing ==
    /\ worker_idle
    /\ query_args = NoArgs
    /\ query_result = Pending
    /\ since_args = NoSince
    /\ since_result = <<NotCalled, NotCalled>>
    /\ listing_args \in ListingInputs
    /\ listing_result = NotListed
    /\ job_not_run

call_get_news_crawl_listing ==
    /\ pc = "config"
    /\ ~listing_result.called
    /\ listing_result' =
          LET r == get_news_crawl_listing(listing_args.start_date, listing_args.end_date,
                                          listing_args.today, listing_args.bucket)
          IN [called |-> TRUE, prefixes |-> r.prefixes, uris |-> r.uris]
    /\ UNCHANGED <<workervars, query_args, query_result, since_args, since_result,
                   listing_args, jobvars>>

NextListing == call_get_news_crawl_listing

SpecListing == InitListing /\ [][NextListing]_vars

(***************************************************************************)
(* The job from run to the value run returns, driver and partition.        *)
(* mapPartitions is a transformation of the RDD and evaluates nothing; the *)
(* partition function runs when the RDD is evaluated, by toDF and by what  *)
(* the caller does with the DataFrame.                                     *)
(***************************************************************************)
InitJob ==
    /\ mode \in {"whole", "ranged"}
    /\ limit \in 0..MaxLimit
    /\ num_input_partitions \in 1..MaxParts
    /\ \E kws \in BOOLEAN, s \in {None, RangeStart}, e \in {None, RangeEnd} :
          LET c == set_constraints(kws, s, e)
          IN /\ keywords = c.keywords
             /\ start_date = c.start_date
             /\ end_date = c.end_date
    /\ pc = "config"
    /\ exc = "none"
    /\ ev = "init"
    /\ record = NoRecord
    /\ taken = 0
    /\ fetch_failed = 0
    /\ corrupt = 0
    /\ completed = 0
    /\ yielded = <<>>
    /\ warc_input_processed = 0
    /\ warc_input_failed = 0
    /\ records_processed = 0
    /\ records_parsing_failed = 0
    /\ records_non_html = 0
    /\ open = 0
    /\ records_successfully_processed = 0
    /\ nrec = 0
    /\ html_to_article_calls = 0
    /\ query_args = NoArgs
    /\ query_result = Pending
    /\ since_args = NoSince
    /\ since_result = <<NotCalled, NotCalled>>
    /\ listing_args = NoListing
    /\ listing_result = NotListed
    /\ job_pc = "run"
    /\ query \in (IF mode = "ranged" THEN {"None", "set"} ELSE {"None"})
    /\ url_only = FALSE
    /\ accumulators = "None"
    /\ index_loaded = FALSE
    /\ job_exc = "none"
    /\ logged = NotLogged

drivervars == <<mode, limit, num_input_partitions, start_date, end_date, keywords,
                query_args, query_result, since_args, since_result,
                listing_args, listing_result, query>>

partitionvars == <<pc, exc, ev, record, taken, fetch_failed, corrupt, completed, yielded,
                   open, records_successfully_processed, nrec, html_to_article_calls>>

\* CCIndexSparkJob.run, reached through CCIndexWarcSparkJob.run(url_only):
\* no query
run_raises(u) ==
    /\ job_pc = "run" /\ mode = "ranged" /\ query = "None"
    /\ url_only' = u
    /\ job_pc' = "raised"
    /\ job_exc' = "ValueError"
    /\ UNCHANGED <<drivervars, partitionvars, counters, accumulators, index_loaded, logged>>

\* run goes on to _run whatever self.query is
run_unchecked(u) ==
    /\ job_pc = "run"
    /\ url_only' = u
    /\ job_pc' = "init_accumulators"
    /\ UNCHANGED <<drivervars, partitionvars, counters, accumulators, index_loaded,
                   job_exc, logged>>

\* CCSparkJob.run (whole-file job), CCIndexWarcSparkJob.run with a query:
\* self.url_only = url_only; return self._run()
run(u) ==
    /\ job_pc = "run" /\ (mode = "whole" \/ query # "None")
    /\ url_only' = u
    /\ job_pc' = "init_accumulators"
    /\ UNCHANGED <<drivervars, partitionvars, counters, accumulators, index_loaded,
                   job_exc, logged>>

\* _run: self.init_accumulators()
init_accumulators ==
    /\ job_pc = "init_accumulators"
    /\ accumulators' = "initialised"
    /\ warc_input_processed' = 0
    /\ warc_input_failed' = 0
    /\ records_processed' = 0
    /\ records_parsing_failed' = 0
    /\ records_non_html' = 0
    /\ job_pc' = "run_job"
    /\ UNCHANGED <<drivervars, partitionvars, url_only, index_loaded, job_exc, logged>>

\* CCSparkJob.run_job, lines 105-109: parallelize and mapPartitions
mapPartitions ==
    /\ job_pc = "run_job" /\ mode = "whole"
    /\ job_pc' = "log_aggregators"
    /\ UNCHANGED <<drivervars, partitionvars, counters, url_only, accumulators,
                   index_loaded, job_exc, logged>>

\* CCIndexWarcSparkJob.run_job, lines 360-376: load_dataframe loads the
\* table and runs the query; url_only returns the urls; no row raises
\* ValueError; otherwise mapPartitions
load_dataframe(num_warcs) ==
    /\ job_pc = "run_job" /\ mode = "ranged"
    /\ index_loaded' = TRUE
    /\ IF url_only
       THEN job_pc' = "returned" /\ job_exc' = job_exc
       ELSE IF num_warcs = 0
       THEN job_pc' = "raised" /\ job_exc' = "ValueError"
       ELSE job_pc' = "log_aggregators" /\ job_exc' = job_exc
    /\ UNCHANGED <<drivervars, partitionvars, counters, url_only, accumulators, logged>>

\* self.log_aggregators(): the value of each accumulator is read and logged
log_aggregators ==
    /\ job_pc = "log_aggregators"
    /\ logged' = [called |-> TRUE,
                  warc_input_processed |-> warc_input_processed,
                  warc_input_failed |-> warc_input_failed,
                  records_processed |-> records_processed,
                  records_parsing_failed |-> records_parsing_failed]
    /\ job_pc' = "toDF"
    /\ UNCHANGED <<drivervars, partitionvars, counters, url_only, accumulators,
                   index_loaded, job_exc>>

\* return rdd.toDF(): the RDD is evaluated, the partition function starts
toDF ==
    /\ job_pc = "toDF" /\ pc = "config"
    /\ pc' = "loop"
    /\ UNCHANGED <<drivervars, counters, exc, ev, record, taken, fetch_failed, corrupt,
                   completed, yielded, open, records_successfully_processed, nrec,
                   html_to_article_calls, job_pc, url_only, accumulators, index_loaded,
                   job_exc, logged>>

\* the partition is done: the job has its result
job_returns ==
    /\ job_pc = "toDF" /\ pc = "done"
    /\ job_pc' = "returned"
    /\ UNCHANGED <<drivervars, partitionvars, counters, url_only, accumulators,
                   index_loaded, job_exc, logged>>

\* an exception left the partition function: the job fails with it
job_fails ==
    /\ job_pc = "toDF" /\ pc = "raised"
    /\ job_pc' = "raised"
    /\ job_exc' = exc
    /\ UNCHANGED <<drivervars, partitionvars, counters, url_only, accumulators,
                   index_loaded, logged>>

NextJob ==
    \/ \E u \in BOOLEAN : run_raises(u)
    \/ \E u \in (IF mode = "ranged" THEN BOOLEAN ELSE {FALSE}) : run(u)
    \/ init_accumulators
    \/ mapPartitions
    \/ \E num_warcs \in 0..MaxUnits : load_dataframe(num_warcs)
    \/ log_aggregators
    \/ toDF
    \/ job_returns
    \/ job_fails
    \/ Next

SpecJob == InitJob /\ [][NextJob]_vars

(***************************************************************************)
(* The partition worker with the two ways out of process_warcs that the    *)
(* other specifications leave aside: download_fileobj raising an exception *)
(* that is not a ClientError, and the consumer abandoning the generator    *)
(***************************************************************************)
\* line 139 raises an exception other than botocore.client.ClientError (a
\* connection error, a timeout): no handler of lines 140-145 matches and the
\* statement is outside the try of lines 150-160, so the exception leaves
\* process_warcs without warctemp.close()
download_raises ==
    /\ mode = "whole" /\ pc = "download"
    /\ record' = NoRecord
    /\ ev' = "download_Exception"
    /\ pc' = "raised" /\ exc' = "Exception"
    /\ UNCHANGED <<cfgvars, counters, taken, fetch_failed, corrupt, completed, yielded,
                   open, records_successfully_processed, nrec, html_to_article_calls>>

\* the consumer takes the object yielded for record r (line 154) and never
\* resumes the generator: closing it raises GeneratorExit at the yield, and
\* `finally: stream.close()` runs; line 177 is not reached
generator_close(r) ==
    /\ mode = "whole" /\ pc = "iter" /\ nrec < MaxRecs
    /\ LET res == process_record(r)
       IN /\ truthy(res.ret) /\ res.ret # "TypeError"
          /\ ev' = "record"
          /\ record' = r
          /\ nrec' = nrec + 1
          /\ records_non_html' = records_non_html + res.non_html
          /\ html_to_article_calls' = html_to_article_calls + (IF res.extracted THEN 1 ELSE 0)
          /\ records_parsing_failed' = records_parsing_failed + res.parsing_failed
          /\ yielded' = Append(yielded, res.ret)
    /\ open' = open - 1
    /\ pc' = "closed"
    /\ UNCHANGED <<cfgvars, exc, taken, fetch_failed, corrupt, completed,
                   warc_input_processed, warc_input_failed, records_processed,
                   records_successfully_processed>>

NextRelease ==
    \/ Next
    \/ download_raises
    \/ \E r \in Records : generator_close(r)

SpecRelease == Init /\ [][NextRelease]_vars

(***************************************************************************)
(* Properties                                                              *)
(***************************************************************************)
accepted(ys) == Cardinality({i \in 1..Len(ys) : ys[i] = "TrueArticle"})

headers(r) == <<r.payload_type, r.content_type>>

\* C1: when an article limit is configured, a partition never yields more
\* than ceil(limit / num_input_partitions) accepted articles in total, in
\* whole-file mode and in ranged mode.
C1_PartitionCap ==
    limit # 0 => accepted(yielded) <= ceil_div(limit, num_input_partitions)

C3_RangedFailureInjection ==
    (mode = "ranged" /\ pc \in {"done", "raised"} /\ corrupt = 0) =>
        /\ warc_input_failed = fetch_failed
        /\ completed = taken - fetch_failed

\* C4: ArchiveLoadFailed raised while a stream is iterated is caught for that
\* stream: warc_input_failed grows by exactly one, what was yielded stays
\* yielded, nothing escapes and the worker is back at the head of its loop.
C4_ArchiveLoadFailed ==
    [][ev' = "ArchiveLoadFailed" =>
         /\ warc_input_failed' = warc_input_failed + 1
         /\ yielded' = yielded
         /\ warc_input_processed' = warc_input_processed
         /\ records_processed' = records_processed
         /\ pc' = "loop" /\ exc' = "none"]_vars

\* the stream of the first unit broke after it had yielded an object
C4_Witness ==
    /\ ev = "ArchiveLoadFailed" /\ taken = 1 /\ Len(yielded) >= 1
    /\ warc_input_failed = 1 /\ pc = "loop"

\* C5: in whole-file mode no exception escapes process_warcs, and when it has
\* ended every WorkUnit taken was counted in warc_input_processed.
C5_NothingEscapes ==
    mode = "whole" =>
        /\ exc = "none" /\ pc # "raised"
        /\ (pc = "done" => warc_input_processed = taken)

\* C6: for an HTML response record whose extraction throws,
\* records_parsing_failed grows by exactly one, nothing is raised and the
\* loop yields nothing for the record.
C6_ExtractionThrows ==
    [][(/\ ev' = "record" /\ record'.rec_type = "response"
        /\ headers(record') \in HtmlHeaders /\ record'.throws) =>
         /\ records_parsing_failed' = records_parsing_failed + 1
         /\ exc' = "none" /\ pc' # "raised"
         /\ yielded' = yielded]_vars

\* C7: for a response record that is not HTML, process_record of each job
\* adds exactly one to records_non_html, leaves records_parsing_failed alone,
\* does not call the extraction and yields nothing.
C7_NonHtml ==
    [][(/\ ev' = "record" /\ record'.rec_type = "response"
        /\ headers(record') \in NonHtmlHeaders) =>
         /\ records_non_html' = records_non_html + 1
         /\ records_parsing_failed' = records_parsing_failed
         /\ html_to_article_calls' = html_to_article_calls
         /\ yielded' = yielded]_vars

\* C8: a record whose type is not 'response' is skipped: nothing is yielded
\* and records_non_html, records_parsing_failed and warc_input_failed keep
\* their values.
C8_NonResponseSkipped ==
    [][(ev' = "record" /\ record'.rec_type # "response") =>
         /\ yielded' = yielded
         /\ records_non_html' = records_non_html
         /\ records_parsing_failed' = records_parsing_failed
         /\ warc_input_failed' = warc_input_failed
         /\ html_to_article_calls' = html_to_article_calls
         /\ pc' # "raised"]_vars

\* a request record that carries an HTML payload type went through the loop
C8_Witness ==
    /\ ev = "record" /\ record.rec_type = "request"
    /\ record.payload_type = "text/html"
    /\ records_processed = 1 /\ yielded = <<>>

\* a record that passed the steps before the date filter
candidate(r) ==
    /\ r.rec_type = "response" /\ headers(r) \in HtmlHeaders
    /\ ~r.throws /\ r.og_type

\* C9: the date filter is inclusive on both bounds and applies only when a
\* range is configured: outside the range the candidate is rejected, inside
\* it (bounds included) it is not, and with no range configured it is not
\* rejected and nothing is raised.
C9_DateFilter ==
    [][(ev' = "record" /\ candidate(record')) =>
         LET d == record'.publish_date
             passes_keywords == keywords => record'.has_keywords
             is_accepted == yielded' = Append(yielded, "TrueArticle")
             configured == start_date # None /\ end_date # None
             unconfigured == start_date = None /\ end_date = None
         IN /\ (configured /\ (d < start_date \/ d > end_date)) =>
                   (~is_accepted /\ pc' # "raised")
            /\ (configured /\ start_date <= d /\ d <= end_date /\ passes_keywords) =>
                   is_accepted
            /\ unconfigured => (exc' = "none" /\ pc' # "raised")
            /\ (unconfigured /\ passes_keywords) => is_accepted]_vars

\* C10: construct_query raises ValueError and returns nothing exactly when
\* some site contains no '.', whatever the other arguments are; otherwise it
\* returns a query and raises nothing.
C10_SiteValidation ==
    query_result # Pending =>
        LET sites == query_args.sites
            unqualified == \E i \in 1..Len(sites) :
                              \A j \in 1..Len(sites[i]) : sites[i][j] # "."
        IN IF unqualified
           THEN query_result = [raised |-> "ValueError", query |-> ""]
           ELSE query_result.raised = "none" /\ query_result.query # ""

\* one qualified and one unqualified site, with every other argument given
C10_Witness ==
    /\ query_result.raised = "ValueError"
    /\ Len(query_args.sites) = 2
    /\ query_args.sites[1] = <<"c", "b", "c", ".", "c", "a">>
    /\ query_args.sites[2] = <<"c", "b", "c">>
    /\ query_args.limit = 10
    /\ query_args.crawls # <<>> /\ query_args.lang = "eng"
    /\ query_args.url_black_list # <<>>

\* sep between the items, written as a left fold
listed(items, sep) ==
    LET f[k \in 0..Len(items)] ==
            IF k = 0 THEN ""
            ELSE IF k = 1 THEN items[1]
            ELSE f[k - 1] \o sep \o items[k]
    IN f[Len(items)]

percent(pattern) ==
    Str([i \in 1..Len(pattern) |-> IF pattern[i] = "*" THEN "%" ELSE pattern[i]])

expected_clauses(a) ==
    << IF Len(a.crawls) = 0 THEN ""
       ELSE IF Len(a.crawls) = 1 THEN " AND crawl = '" \o a.crawls[1] \o "'"
       ELSE " AND crawl IN ("
            \o listed([i \in 1..Len(a.crawls) |-> "'" \o a.crawls[i] \o "'"], ", ") \o ")",
       IF Len(a.sites) = 0 THEN ""
       ELSE " AND url_host_registered_domain IN ("
            \o listed([i \in 1..Len(a.sites) |-> "'" \o Str(a.sites[i]) \o "'"], ", ") \o ")",
       IF a.lang = "" THEN ""
       ELSE " AND (content_languages IS NULL OR (content_languages IS NOT NULL AND content_languages = '"
            \o a.lang \o "'))",
       IF Len(a.url_black_list) = 0 THEN ""
       ELSE " AND NOT ("
            \o listed([i \in 1..Len(a.url_black_list) |->
                          "url_path LIKE '" \o percent(a.url_black_list[i]) \o "'"], " OR ")
            \o ")",
       IF a.limit = 0 THEN "" ELSE " LIMIT " \o ToString(a.limit) >>

cbc_ca == <<"c", "b", "c", ".", "c", "a">>
apnews_com == <<"a", "p", "n", "e", "w", "s", ".", "c", "o", "m">>

C12_TestLiteral ==
    ( /\ query_result.raised = "none"
      /\ query_args.crawls = <<>> /\ query_args.lang = "eng"
      /\ query_args.url_black_list = <<>>
      /\ query_args.sites # <<>> /\ query_args.limit # 0 )
    => query_result.query =
          "SELECT url, warc_filename, warc_record_offset, warc_record_length, content_charset FROM ccindex WHERE crawl = 'CC-MAIN-2021-39' AND subset = 'wet' AND url_host_registered_domain IN ("
          \o listed([i \in 1..Len(query_args.sites) |->
                        "'" \o Str(query_args.sites[i]) \o "'"], ", ")
          \o ") LIMIT " \o ToString(query_args.limit)

month_number ==
    [January |-> 1, February |-> 2, March |-> 3, April |-> 4, May |-> 5, June |-> 6,
     July |-> 7, August |-> 8, September |-> 9, October |-> 10, November |-> 11,
     December |-> 12]

\* the year of a crawl: the earliest year its name contains
year_of(name) ==
    CHOOSE y \in {name.years[i] : i \in 1..Len(name.years)} :
        \A i \in 1..Len(name.years) : y <= name.years[i]

\* the crawl is strictly after the date
after(name, date) ==
    \/ year_of(name) > date.year
    \/ /\ year_of(name) = date.year
       /\ name.months # <<>>
       /\ month_number[name.months[1]] > date.month

\* C13: get_cc_crawls_since(date) returns exactly the ids of the crawls of
\* the catalog strictly after the date (year greater, or year equal and month
\* greater), each once, in catalog order, so that its last element is the
\* last qualifying crawl of the catalog; a crawl of the date's year whose
\* name has no month is left out.
C13_CrawlsSince ==
    \A k \in 1..2 :
        since_result[k].called =>
            LET crawls == since_args.crawls
                date == since_args.dates[k]
                ids == since_result[k].crawl_ids
                qualifying == {i \in 1..Len(crawls) : after(crawls[i].name, date)}
            IN /\ {ids[j] : j \in 1..Len(ids)} = {crawls[i].id : i \in qualifying}
               /\ Len(ids) = Cardinality(qualifying)
               /\ \A j \in 1..Len(ids) : \A l \in 1..Len(ids) :
                     j < l => \E i \in qualifying : \E h \in qualifying :
                                 i < h /\ crawls[i].id = ids[j] /\ crawls[h].id = ids[l]
               /\ qualifying # {} =>
                     ids[Len(ids)] = crawls[CHOOSE i \in qualifying :
                                               \A h \in qualifying : h <= i].id
               /\ \A i \in 1..Len(crawls) :
                     (year_of(crawls[i].name) = date.year /\ crawls[i].name.months = <<>>)
                     => \A j \in 1..Len(ids) : ids[j] # crawls[i].id

\* a call that keeps one crawl for its month and drops one of the same year
\* that has no month
C13_Witness ==
    /\ since_result[1].called
    /\ since_args.dates[1] = [year |-> 2020, month |-> 3]
    /\ Len(since_args.crawls) = 2
    /\ since_args.crawls[1].name = [years |-> <<2020>>, months |-> <<"June">>]
    /\ since_args.crawls[2].name = [years |-> <<2020>>, months |-> <<>>]
    /\ since_result[1].crawl_ids = <<1>>

before_or_equal(d1, d2) ==
    d1.year < d2.year \/ (d1.year = d2.year /\ d1.month <= d2.month)

\* C14: get_cc_crawls_since is monotonic in its date: over the same catalog,
\* for d1 <= d2 every id returned for d2 is returned for d1.
C14_Monotonic ==
    \A k \in 1..2 : \A l \in 1..2 :
        ( /\ since_result[k].called /\ since_result[l].called
          /\ before_or_equal(since_args.dates[k], since_args.dates[l]) )
        => \A j \in 1..Len(since_result[l].crawl_ids) :
              \E i \in 1..Len(since_result[k].crawl_ids) :
                 since_result[k].crawl_ids[i] = since_result[l].crawl_ids[j]

\* both dates called, the later one returning fewer ids, but some
C14_Witness ==
    /\ since_result[1].called /\ since_result[2].called
    /\ before_or_equal(since_args.dates[1], since_args.dates[2])
    /\ since_args.dates[1] # since_args.dates[2]
    /\ since_result[2].crawl_ids # <<>>
    /\ Len(since_result[2].crawl_ids) < Len(since_result[1].crawl_ids)

\* number of the day in the proleptic Gregorian calendar, counted from March
day_number(d) ==
    LET y == IF d.month <= 2 THEN d.year - 1 ELSE d.year
        mp == (d.month + 9) % 12
    IN y * 365 + y \div 4 - y \div 100 + y \div 400 + (153 * mp + 2) \div 5 + d.day

month_length(y, m) ==
    <<31, IF y % 4 = 0 /\ (y % 100 # 0 \/ y % 400 = 0) THEN 29 ELSE 28,
      31, 30, 31, 30, 31, 31, 30, 31, 30, 31>>[m]

year_text(y) == CASE y = 1 -> "0001" [] y = 2021 -> "2021" [] y = 2024 -> "2024"

field_text ==
    <<"01", "02", "03", "04", "05", "06", "07", "08", "09", "10", "11", "12", "13",
      "14", "15", "16", "17", "18", "19", "20", "21", "22", "23", "24", "25", "26",
      "27", "28", "29", "30", "31">>

\* crawl-data/CC-NEWS/YYYY/MM/CC-NEWS-YYYYMMDD
day_prefix(d) ==
    <<"crawl-data", "/", "CC-NEWS", "/", year_text(d.year), "/", field_text[d.month], "/",
      "CC-NEWS-", year_text(d.year), field_text[d.month], field_text[d.day]>>

in_bucket(key) == \E i \in 1..Len(listing_args.bucket) : listing_args.bucket[i] = key

under(key, prefix) ==
    Len(prefix) <= Len(key) /\ \A i \in 1..Len(prefix) : key[i] = prefix[i]

\* C15: with at least one date bound get_news_crawl_listing lists exactly the
\* days from start to end + 30 days (a missing end is today, a missing start
\* the earliest date), each once, under the day's prefix
\* crawl-data/CC-NEWS/YYYY/MM/CC-NEWS-YYYYMMDD, and every URI returned is
\* 's3://commoncrawl/' followed by a key of the bucket under the prefix of a
\* day of that range; with no bound every URI returned is 's3://commoncrawl/'
\* followed by a key under crawl-data/CC-NEWS/.
C15_NewsListing ==
    listing_result.called =>
        LET a == listing_args
            r == listing_result
            first == IF a.start_date = NoDate THEN [year |-> 1, month |-> 1, day |-> 1]
                     ELSE a.start_date
            last == IF a.end_date = NoDate THEN a.today ELSE a.end_date
            n == day_number(last) + 30 - day_number(first) + 1
        IN IF a.start_date = NoDate /\ a.end_date = NoDate
           THEN \A u \in 1..Len(r.uris) :
                   /\ r.uris[u][1] = "s3://commoncrawl/"
                   /\ in_bucket(Tail(r.uris[u]))
                   /\ under(Tail(r.uris[u]), <<"crawl-data", "/", "CC-NEWS", "/">>)
           ELSE /\ Len(r.prefixes) = IF n < 0 THEN 0 ELSE n
                /\ \A i \in 1..Len(r.prefixes) :
                      /\ Len(r.prefixes[i]) = 12
                      /\ \E y \in {1, 2021, 2024} :
                            /\ year_text(y) = r.prefixes[i][5]
                            /\ \E m \in 1..12 :
                                  /\ field_text[m] = r.prefixes[i][7]
                                  /\ \E dd \in 1..month_length(y, m) :
                                        /\ field_text[dd] = r.prefixes[i][12]
                                        /\ r.prefixes[i] =
                                              day_prefix([year |-> y, month |-> m, day |-> dd])
                                        /\ day_number([year |-> y, month |-> m, day |-> dd])
                                              = day_number(first) + i - 1
                /\ \A u \in 1..Len(r.uris) :
                      /\ r.uris[u][1] = "s3://commoncrawl/"
                      /\ in_bucket(Tail(r.uris[u]))
                      /\ \E i \in 1..Len(r.prefixes) : under(Tail(r.uris[u]), r.prefixes[i])
                /\ ( /\ a.start_date = [year |-> 2021, month |-> 8, day |-> 25]
                     /\ a.end_date = [year |-> 2021, month |-> 8, day |-> 25] )
                   => /\ Len(r.prefixes) = 31
                      /\ r.prefixes[1] = <<"crawl-data", "/", "CC-NEWS", "/", "2021", "/", "08",
                                           "/", "CC-NEWS-", "2021", "08", "25">>
                      /\ r.prefixes[31] = <<"crawl-data", "/", "CC-NEWS", "/", "2021", "/", "09",
                                            "/", "CC-NEWS-", "2021", "09", "24">>

\* a call with a start and no end: today stands for the end, and a file of
\* the thirtieth day after today is returned
C15_Witness ==
    /\ listing_result.called
    /\ listing_args.start_date = [year |-> 2021, month |-> 8, day |-> 25]
    /\ listing_args.end_date = NoDate
    /\ listing_args.today = [year |-> 2021, month |-> 8, day |-> 27]
    /\ \E u \in 1..Len(listing_result.uris) :
          listing_result.uris[u] =
             <<"s3://commoncrawl/", "crawl-data", "/", "CC-NEWS", "/", "2021", "/", "09", "/",
               "CC-NEWS-", "2021", "09", "26", "012345-00003.warc.gz">>

\* C16: an index job run with no query configured raises ValueError to its
\* caller as its only step: the accumulators are not initialised, the index
\* table is not loaded or queried, no fetch is issued and no counter changes.
C16_NoQuery ==
    [][(mode = "ranged" /\ query = "None") =>
          /\ job_pc = "run"
          /\ job_pc' = "raised" /\ job_exc' = "ValueError"
          /\ accumulators' = "None"
          /\ ~index_loaded'
          /\ ~logged'.called
          /\ pc' = "config" /\ taken' = 0
          /\ UNCHANGED counters]_vars

C16_Witness ==
    /\ mode = "ranged" /\ query = "None"
    /\ job_pc = "raised" /\ job_exc = "ValueError"
    /\ accumulators = "None" /\ ~index_loaded /\ taken = 0

\* C17: in run_job of the whole-file job and of the ranged job the counters
\* are read and logged only after the processing of every partition has
\* completed, so that the values logged are the final ones.
C17_LoggedAfterProcessing ==
    /\ logged.called => pc = "done"
    /\ job_pc = "returned" /\ logged.called =>
          /\ logged.warc_input_processed = warc_input_processed
          /\ logged.warc_input_failed = warc_input_failed
          /\ logged.records_processed = records_processed
          /\ logged.records_parsing_failed = records_parsing_failed

\* C18: in whole-file mode the temporary buffer of a WorkUnit is closed on
\* every way out of the unit (download failure, corrupt stream, end of
\* stream, soft cap, any other exception): at most one buffer is open at any
\* moment and none is open once process_warcs has ended, raised or been
\* abandoned.
C18_BufferReleased ==
    mode = "whole" =>
        /\ open <= 1
        /\ pc \in {"done", "raised", "closed"} => open = 0

\* C19: every counter is non-decreasing over the steps of a partition: a
\* step leaves a counter as it is or adds exactly 1 to it, and no step
\* decreases or resets a counter.
C19_CountersMonotonic ==
    [][/\ warc_input_processed' \in {warc_input_processed, warc_input_processed + 1}
       /\ warc_input_failed' \in {warc_input_failed, warc_input_failed + 1}
       /\ records_processed' \in {records_processed, records_processed + 1}
       /\ records_parsing_failed' \in {records_parsing_failed, records_parsing_failed + 1}
       /\ records_non_html' \in {records_non_html, records_non_html + 1}]_vars

\* every counter has been written, in a partition of more than one unit
C19_Witness ==
    /\ warc_input_processed = 2
    /\ warc_input_failed >= 1
    /\ records_processed >= 1
    /\ records_parsing_failed >= 1
    /\ records_non_html >= 1

\* C20: in every reachable state of a partition, in whole-file mode and in
\* ranged mode, warc_input_failed <= warc_input_processed, and no WorkUnit
\* adds to warc_input_failed more than once.
C20_FailedAtMostProcessed ==
    /\ warc_input_failed <= warc_input_processed
    /\ warc_input_failed <= taken

====
